---- MODULE Spec2Model ----
(***************************************************************************)
(* A model of the trading simulations of the stock-analysis scripts:       *)
(*   letsSee.py        main option C -> moving_average_crossover_strategy  *)
(*   testr.py          get_stock_data -> simulate_trading                  *)
(*   stockPractice.py  the EMA/SMA signal loop and the whole-share loop    *)
(*                                                                         *)
(* One behaviour is one run of one script (prog) on one price series.      *)
(* Rows of a column are numbered from 1 here: row k is the code's iloc[k-1]*)
(* and the loop counter i keeps the code's 0-based value.                  *)
(*                                                                         *)
(* Real numbers (the code's floats) are exact fractions <<num, den>> with  *)
(* den > 0 in lowest terms; <<0, 0>> is NaN.  pandas is modelled with the  *)
(* classic (non copy-on-write) semantics the scripts were written for:     *)
(* the chained assignments data['Signal'][20:] = ... and                   *)
(* stock_data['Signal'].iloc[i] = ... write through to the frame.          *)
(***************************************************************************)
EXTENDS Integers, Sequences, FiniteSets, TLC

(* ------------------------------------------------------------------ *)
(* Bounds of the explored inputs                                       *)
(* ------------------------------------------------------------------ *)
\* longest trend (flat or rising by 1 a bar) a downloaded series starts with
MaxPrefix == 49
\* number of freely moving bars that may follow the trend
MaxTail == 2
\* longest column handed directly to a simulation loop
MaxDirect == 3
\* first price of a downloaded series
StartPrice == 5
\* moves a bar of the tail may make, and the slopes of the leading trend
Deltas == {-2, 1}
Slopes == {0, 1}
\* prices of a directly given Close column
DirectPrices == {1, 2}

(* ------------------------------------------------------------------ *)
(* Exact fractions and NaN                                             *)
(* ------------------------------------------------------------------ *)
NaN == <<0, 0>>

IsNaN(x) == x[2] = 0

Abs(n) == IF n < 0 THEN -n ELSE n

RECURSIVE GCD(_, _)
GCD(a, b) == IF b = 0 THEN a ELSE GCD(b, a % b)

Rat(n, d) ==
  LET g == GCD(Abs(n), Abs(d))
      s == IF d < 0 THEN -1 ELSE 1
  IN  <<s * (n \div g), s * (d \div g)>>

R(n) == <<n, 1>>

Add(x, y) ==
  IF IsNaN(x) \/ IsNaN(y) THEN NaN
  ELSE LET g == GCD(x[2], y[2])
           l == (x[2] \div g) * y[2]
       IN  Rat(x[1] * (l \div x[2]) + y[1] * (l \div y[2]), l)

Neg(x) == IF IsNaN(x) THEN NaN ELSE <<-x[1], x[2]>>

Sub(x, y) == Add(x, Neg(y))

Mul(x, y) ==
  IF IsNaN(x) \/ IsNaN(y) THEN NaN
  ELSE LET a == Rat(x[1], y[2])
           b == Rat(y[1], x[2])
       IN  <<a[1] * b[1], a[2] * b[2]>>

\* y is never zero where the code divides: prices are positive
Div(x, y) ==
  IF IsNaN(x) \/ IsNaN(y) THEN NaN
  ELSE Mul(x, Rat(y[2], y[1]))

\* comparisons with NaN are False, as in numpy/pandas
Gt(x, y) == ~IsNaN(x) /\ ~IsNaN(y) /\ x[1] * y[2] > y[1] * x[2]
Lt(x, y) == Gt(y, x)
Le(x, y) == ~IsNaN(x) /\ ~IsNaN(y) /\ x[1] * y[2] <= y[1] * x[2]

(* ------------------------------------------------------------------ *)
(* Price series the data source may deliver                            *)
(* ------------------------------------------------------------------ *)
RECURSIVE SumTo(_, _)
SumTo(s, k) == IF k = 0 THEN 0 ELSE s[k] + SumTo(s, k - 1)

\* a trend of m bars from StartPrice with slope d, then the moves ds
Series(m, d, ds) ==
  [k \in 1..(m + Len(ds)) |->
     IF k <= m THEN StartPrice + d * (k - 1)
     ELSE StartPrice + (IF m = 0 THEN 0 ELSE d * (m - 1)) + SumTo(ds, k - m)]

DeltaSeqs == UNION {[1..k -> Deltas] : k \in 0..MaxTail}

Positive(s) == \A k \in 1..Len(s) : s[k] >= 1

Downloads ==
  {s \in {Series(m, d, ds) : m \in 0..MaxPrefix, d \in Slopes, ds \in DeltaSeqs} :
     Positive(s)}

DirectCloses == UNION {[1..k -> DirectPrices] : k \in 0..MaxDirect}

\* prices of a Close column given to the whole-share loop: 3 does not divide the capital
WholeSharePrices == {2, 3}
WholeShareCloses == UNION {[1..k -> WholeSharePrices] : k \in 0..MaxDirect}

(* ------------------------------------------------------------------ *)
(* Indicators                                                          *)
(* ------------------------------------------------------------------ *)
RECURSIVE SumRange(_, _, _)
SumRange(s, lo, hi) == IF lo > hi THEN 0 ELSE s[hi] + SumRange(s, lo, hi - 1)

\* Series.rolling(window).mean(): NaN until the window is filled
RollingMean(s, window) ==
  [k \in 1..Len(s) |->
     IF k < window THEN NaN ELSE Rat(SumRange(s, k - window + 1, k), window)]

(* ------------------------------------------------------------------ *)
(* State                                                               *)
(* ------------------------------------------------------------------ *)
VARIABLES
  prog,               \* the script (or function called directly) of this run
  pc,                 \* where the run stands
  outcome,            \* "running", then how the run ended
  Close,              \* the price column (positive integers)
  Signal,             \* the Signal column
  Position,           \* testr.py: the Position column, fractions or NaN
  i,                  \* the loop counter of the simulation loop
  initial_investment, \* letsSee.py:219, testr.py:21
  cash,               \* letsSee.py / testr.py: cash
  stock_holding,      \* letsSee.py: stock_holding
  stock,              \* testr.py: stock
  portfolio_values,   \* letsSee.py / testr.py: portfolio_values
  Daily_Return,       \* letsSee.py: the Daily_Return column
  Strategy_Return,    \* letsSee.py: the Strategy_Return column
  summary,            \* letsSee.py: <<>> or <<the figures printed at the end>>
  Holdings,           \* stockPractice.py: the Holdings column
  Cash,               \* stockPractice.py: the Cash column
  Total,              \* stockPractice.py: the Total column
  Returns             \* stockPractice.py: the Returns column

dataVars == <<prog, Close, initial_investment>>
lsVars == <<stock_holding, Daily_Return, Strategy_Return, summary>>
trVars == <<Position, stock>>
spVars == <<Holdings, Cash, Total, Returns>>
vars == <<prog, pc, outcome, Close, Signal, Position, i, initial_investment, cash,
          stock_holding, stock, portfolio_values, Daily_Return, Strategy_Return, summary,
          Holdings, Cash, Total, Returns>>

N == Len(Close)

DefaultInvestment == 5000
Investments == {DefaultInvestment, 1500}

(* ------------------------------------------------------------------ *)
(* letsSee.py: moving_average_crossover_strategy                       *)
(* ------------------------------------------------------------------ *)
FastWindow == 20
SlowWindow == 50

\* trade_size_pct = 0.1
trade_size_pct == Rat(1, 10)

\* variant: the Sell comparison is strict, so a tie stays Hold
CrossoverSignalStrict(ma20, ma50) ==
  LET s0 == 0
      s1 == IF Gt(ma20, ma50) THEN 1 ELSE s0
  IN  IF Lt(ma20, ma50) THEN -1 ELSE s1

\* Signal = 0; 1 where MA_20 > MA_50; then -1 where MA_20 <= MA_50
CrossoverSignal(ma20, ma50) ==
  LET s0 == 0
      s1 == IF Gt(ma20, ma50) THEN 1 ELSE s0
  IN  IF Le(ma20, ma50) THEN -1 ELSE s1

SignalColumn(close) ==
  LET MA_20 == RollingMean(close, FastWindow)
      MA_50 == RollingMean(close, SlowWindow)
  IN  [k \in 1..Len(close) |-> CrossoverSignal(MA_20[k], MA_50[k])]

\* main, choice "C": an empty download is reported and main returns
MainNoData ==
  /\ prog = "letsSee" /\ pc = "main"
  /\ Close = <<>>
  /\ pc' = "done"
  /\ outcome' = "no_data"
  /\ UNCHANGED <<dataVars, Signal, i, cash, portfolio_values, lsVars, trVars, spVars>>

\* the indicator and signal columns, and the start of the simulation
GenerateSignals ==
  /\ prog = "letsSee" /\ pc = "main"
  /\ Close # <<>>
  /\ Signal' = SignalColumn(Close)
  /\ cash' = R(initial_investment)
  /\ stock_holding' = R(0)
  /\ portfolio_values' = <<>>
  /\ i' = 0
  /\ pc' = "loop"
  /\ UNCHANGED <<dataVars, outcome, Daily_Return, Strategy_Return, summary, trVars, spVars>>

\* one iteration of for i in range(len(data))
\* variant: the holding is added as a share count, not valued at the bar's price
PortfolioValueUnpriced(c, holding, price) == Add(c, holding)

PortfolioValue(c, holding, price) == Add(c, Mul(holding, price))

BuyBranch(signal) == signal = 1
SellBranch(signal, holding) == signal = -1 /\ Gt(holding, R(0))

StrategyStep ==
  /\ prog \in {"letsSee", "letsSee_loop"} /\ pc = "loop"
  /\ i < N
  /\ LET price == R(Close[i + 1])
         signal == Signal[i + 1]
         trade_size == Mul(cash, trade_size_pct)
         shares_to_buy == Div(trade_size, price)
         cash2 == IF BuyBranch(signal) THEN Sub(cash, trade_size)
                  ELSE IF SellBranch(signal, stock_holding)
                       THEN Add(cash, Mul(stock_holding, price))
                       ELSE cash
         hold2 == IF BuyBranch(signal) THEN Add(stock_holding, shares_to_buy)
                  ELSE IF SellBranch(signal, stock_holding) THEN R(0)
                       ELSE stock_holding
     IN  /\ cash' = cash2
         /\ stock_holding' = hold2
         /\ portfolio_values' = Append(portfolio_values, PortfolioValue(cash2, hold2, price))
  /\ i' = i + 1
  /\ UNCHANGED <<dataVars, pc, outcome, Signal, Daily_Return, Strategy_Return, summary,
                 trVars, spVars>>

\* Close.pct_change(): NaN on the first row
PctChange(col, k) ==
  IF k = 1 THEN NaN ELSE Sub(Div(R(col[k]), R(col[k - 1])), R(1))

\* variant: the signal column is not shifted
NoShift(col, k) == R(col[k])

\* Signal.shift(1): NaN on the first row
Shift1(col, k) == IF k = 1 THEN NaN ELSE R(col[k - 1])

DailyReturnColumn(close) == [k \in 1..Len(close) |-> PctChange(close, k)]

StrategyReturnColumn(signal, daily) ==
  [k \in 1..Len(daily) |-> Mul(Shift1(signal, k), daily[k])]

\* Strategy_Return.notna() & (Signal.shift(1) != 0)
ValidTrade(sr, signal, k) == ~IsNaN(sr[k]) /\ Shift1(signal, k) # R(0)

WinRatio(sr, signal) ==
  LET valid_trades == {k \in 1..Len(sr) : ValidTrade(sr, signal, k)}
      win_trades == Cardinality({k \in valid_trades : Gt(sr[k], R(0))})
      total_trades == Cardinality(valid_trades)
  IN  IF total_trades > 0 THEN Mul(Rat(win_trades, total_trades), R(100)) ELSE R(0)

\* the returns, the win ratio, the buy-and-hold comparison and the printed figures
Metrics ==
  /\ prog \in {"letsSee", "letsSee_loop"} /\ pc = "loop"
  /\ i = N
  /\ LET dr == DailyReturnColumn(Close)
         sr == StrategyReturnColumn(Signal, dr)
         buy_and_hold_return ==
           Mul(Div(R(Close[N]), R(Close[1])), R(initial_investment))
         final_portfolio_value == portfolio_values[N]
     IN  /\ Daily_Return' = dr
         /\ Strategy_Return' = sr
         /\ summary' = << [final_portfolio_value |-> final_portfolio_value,
                           win_ratio |-> WinRatio(sr, Signal),
                           buy_and_hold_return |-> buy_and_hold_return,
                           outperformed |->
                             Gt(final_portfolio_value, buy_and_hold_return)] >>
         /\ outcome' = "ok"
  /\ pc' = "done"
  /\ UNCHANGED <<dataVars, Signal, i, cash, stock_holding, portfolio_values,
                 trVars, spVars>>

(* ------------------------------------------------------------------ *)
(* testr.py: get_stock_data and simulate_trading                       *)
(* ------------------------------------------------------------------ *)
\* data['Signal'][20:] = ...: the rows the slice assigns (iloc 20 and later)
SignalStart == 20

\* variant: an undefined average gives Hold
WhereSignalHoldOnNaN(sma20, sma50) ==
  IF Gt(sma20, sma50) THEN 1 ELSE IF Le(sma20, sma50) THEN -1 ELSE 0

\* variant: the two outcomes of np.where are swapped
WhereSignalSwapped(sma20, sma50) == IF Gt(sma20, sma50) THEN -1 ELSE 1

\* np.where(SMA20 > SMA50, 1, -1)
WhereSignal(sma20, sma50) == IF Gt(sma20, sma50) THEN 1 ELSE -1

TestrSignalColumn(close) ==
  LET SMA20 == RollingMean(close, FastWindow)
      SMA50 == RollingMean(close, SlowWindow)
  IN  [k \in 1..Len(close) |->
         IF k - 1 >= SignalStart THEN WhereSignal(SMA20[k], SMA50[k]) ELSE 0]

\* Series.diff(): NaN on the first row
Diff(col) == [k \in 1..Len(col) |-> IF k = 1 THEN NaN ELSE R(col[k] - col[k - 1])]

get_stock_data ==
  /\ prog = "testr" /\ pc = "main"
  /\ Signal' = TestrSignalColumn(Close)
  /\ Position' = Diff(TestrSignalColumn(Close))
  /\ pc' = "simulate_trading"
  /\ UNCHANGED <<dataVars, outcome, i, cash, stock, portfolio_values, lsVars, spVars>>

\* cash = initial_investment; stock = 0; portfolio_values = []
SimulateBegin ==
  /\ prog \in {"testr", "simulate_trading"} /\ pc = "simulate_trading"
  /\ cash' = R(initial_investment)
  /\ stock' = R(0)
  /\ portfolio_values' = <<>>
  /\ i' = 0
  /\ pc' = "loop"
  /\ UNCHANGED <<dataVars, outcome, Signal, Position, lsVars, spVars>>

SimPortfolioValue(c, s, price) == Add(c, Mul(s, price))

BuySignal(position) == position = R(2)
SellSignal(position) == position = R(-2)

\* one iteration of for i in range(len(data))
SimulateStep ==
  /\ prog \in {"testr", "simulate_trading"} /\ pc = "loop"
  /\ i < N
  /\ LET price == R(Close[i + 1])
         position == Position[i + 1]
         stock2 == IF BuySignal(position) THEN Div(cash, price)
                   ELSE IF SellSignal(position) THEN R(0) ELSE stock
         cash2 == IF BuySignal(position) THEN R(0)
                  ELSE IF SellSignal(position) THEN Mul(stock, price) ELSE cash
     IN  /\ stock' = stock2
         /\ cash' = cash2
         /\ portfolio_values' = Append(portfolio_values, SimPortfolioValue(cash2, stock2, price))
  /\ i' = i + 1
  /\ UNCHANGED <<dataVars, pc, outcome, Signal, Position, lsVars, spVars>>

\* data['Portfolio Value'] = portfolio_values; return data
SimulateReturn ==
  /\ prog \in {"testr", "simulate_trading"} /\ pc = "loop"
  /\ i = N
  /\ pc' = "done"
  /\ outcome' = "ok"
  /\ UNCHANGED <<dataVars, Signal, Position, i, cash, stock, portfolio_values,
                 lsVars, spVars>>

(* ------------------------------------------------------------------ *)
(* stockPractice.py                                                    *)
(* ------------------------------------------------------------------ *)
initial_capital == 10000
lookback_period == 2
EmaSpan == 20
SmaWindow == 10

\* Series.ewm(span, adjust=False).mean(): y[0] = x[0],
\* y[t] = (1 - alpha) * y[t-1] + alpha * x[t] with alpha = 2 / (span + 1)
RECURSIVE EwmMean(_, _, _)
EwmMean(s, span, k) ==
  IF k = 0 THEN <<>>
  ELSE LET prev == EwmMean(s, span, k - 1)
           alpha == Rat(2, span + 1)
       IN  Append(prev,
                  IF k = 1 THEN R(s[1])
                  ELSE Add(Mul(Sub(R(1), alpha), prev[k - 1]), Mul(alpha, R(s[k]))))

\* variant: only the current bar is compared
LookbackSignalCurrentBar(ema, sma, k) ==
  IF Gt(ema[k], sma[k]) THEN 1
  ELSE IF Lt(ema[k], sma[k]) THEN -1
  ELSE 0

\* the body of for i in range(lookback_period, len(stock_data)), for row k = i + 1
LookbackSignal(ema, sma, k) ==
  IF Gt(ema[k], sma[k]) /\ Gt(ema[k - 1], sma[k - 1]) THEN 1
  ELSE IF Lt(ema[k], sma[k]) /\ Lt(ema[k - 1], sma[k - 1]) THEN -1
  ELSE 0

EMA_20(close) == EwmMean(close, EmaSpan, Len(close))
SMA_10(close) == RollingMean(close, SmaWindow)

LookbackSignalColumn(close) ==
  LET ema == EMA_20(close)
      sma == SMA_10(close)
  IN  [k \in 1..Len(close) |->
         IF k - 1 >= lookback_period THEN LookbackSignal(ema, sma, k) ELSE 0]

Filled(n, v) == [k \in 1..n |-> v]

\* the indicator columns, the portfolio columns and the signal loop
SignalLoop ==
  /\ prog = "stockPractice" /\ pc = "main"
  /\ Signal' = LookbackSignalColumn(Close)
  /\ Holdings' = Filled(N, 0)
  /\ Cash' = Filled(N, initial_capital)
  /\ Total' = Filled(N, initial_capital)
  /\ Returns' = Filled(N, NaN)
  /\ i' = 1
  /\ pc' = "loop"
  /\ UNCHANGED <<dataVars, outcome, cash, portfolio_values, lsVars, trVars>>

\* variant: the share count is rounded up
SharesToBuyRoundedUp(prev_cash, adj_close) == (prev_cash + adj_close - 1) \div adj_close

\* shares_to_buy = prev_cash // adj_close
SharesToBuy(prev_cash, adj_close) == prev_cash \div adj_close

\* variant: a Sell empties the holdings without crediting the cash
CashAfterUncredited(signal, prev_cash, prev_holdings, investment_value) ==
  IF signal = 1 THEN prev_cash - investment_value ELSE prev_cash

\* the Cash entry the three branches write
CashAfter(signal, prev_cash, prev_holdings, investment_value) ==
  IF signal = 1 THEN prev_cash - investment_value
  ELSE IF signal = -1 THEN prev_cash + prev_holdings
  ELSE prev_cash

\* one iteration of for i in range(1, len(stock_data))
PortfolioStep ==
  /\ prog \in {"stockPractice", "stockPractice_loop"} /\ pc = "loop"
  /\ i < N
  /\ LET prev_cash == Cash[i]
         prev_holdings == Holdings[i]
         adj_close == Close[i + 1]
         shares_to_buy == SharesToBuy(prev_cash, adj_close)
         investment_value == shares_to_buy * adj_close
         h == IF Signal[i + 1] = 1 THEN prev_holdings + investment_value
              ELSE IF Signal[i + 1] = -1 THEN 0 ELSE prev_holdings
         c == CashAfter(Signal[i + 1], prev_cash, prev_holdings, investment_value)
     IN  /\ Holdings' = [Holdings EXCEPT ![i + 1] = h]
         /\ Cash' = [Cash EXCEPT ![i + 1] = c]
         /\ Total' = [Total EXCEPT ![i + 1] = c + h]
  /\ i' = i + 1
  /\ UNCHANGED <<dataVars, pc, outcome, Signal, Returns, cash, portfolio_values,
                 lsVars, trVars>>

\* Returns = Total.pct_change(); the final print reads Total.iloc[-1]
ReturnsAndReport ==
  /\ prog \in {"stockPractice", "stockPractice_loop"} /\ pc = "loop"
  /\ i >= N
  /\ Returns' = [k \in 1..N |-> PctChange(Total, k)]
  /\ outcome' = IF N = 0 THEN "IndexError" ELSE "ok"
  /\ pc' = "done"
  /\ UNCHANGED <<dataVars, Signal, i, Holdings, Cash, Total, cash, portfolio_values,
                 lsVars, trVars>>

(* ------------------------------------------------------------------ *)
(* Runs                                                                *)
(* ------------------------------------------------------------------ *)
SignalValues == {-1, 0, 1}
PositionValues == {R(v) : v \in -2..2}

\* the EMA of a rising trend has denominators 21^k: stockPractice.py is run on the
\* series that start flat
FlatDownloads ==
  {s \in {Series(m, 0, ds) : m \in 0..MaxPrefix, ds \in DeltaSeqs} : Positive(s)}

Idle ==
  /\ pc = "main" /\ outcome = "running"
  /\ Signal = <<>> /\ Position = <<>> /\ i = 0
  /\ cash = R(0) /\ stock_holding = R(0) /\ stock = R(0)
  /\ portfolio_values = <<>> /\ summary = <<>>
  /\ Daily_Return = <<>> /\ Strategy_Return = <<>>
  /\ Holdings = <<>> /\ Cash = <<>> /\ Total = <<>> /\ Returns = <<>>

\* a script is started on the series the data source delivers
InitScript ==
  /\ Idle
  /\ \/ prog = "letsSee" /\ Close \in Downloads
        /\ initial_investment = DefaultInvestment
     \/ prog = "testr" /\ Close \in Downloads
        /\ initial_investment \in Investments
     \/ prog = "stockPractice" /\ Close \in FlatDownloads
        /\ initial_investment = initial_capital

\* a simulation loop is run on columns given directly
InitDirect ==
  /\ outcome = "running"
  /\ stock_holding = R(0) /\ stock = R(0)
  /\ portfolio_values = <<>> /\ summary = <<>>
  /\ Daily_Return = <<>> /\ Strategy_Return = <<>>
  /\ Returns = Filled(0, NaN)
  /\ \/ /\ prog = "letsSee_loop" /\ pc = "loop" /\ i = 0
        /\ Close \in DirectCloses
        /\ N >= 1
        /\ Signal \in [1..N -> SignalValues]
        /\ Position = <<>>
        /\ initial_investment = DefaultInvestment
        /\ cash = R(initial_investment)
        /\ Holdings = <<>> /\ Cash = <<>> /\ Total = <<>>
     \/ /\ prog = "simulate_trading" /\ pc = "simulate_trading" /\ i = 0
        /\ Close \in DirectCloses
        /\ Signal = <<>>
        /\ Position \in [1..N -> PositionValues]
        /\ initial_investment \in Investments
        /\ cash = R(0)
        /\ Holdings = <<>> /\ Cash = <<>> /\ Total = <<>>
     \/ /\ prog = "stockPractice_loop" /\ pc = "loop" /\ i = 1
        /\ Close \in WholeShareCloses
        /\ N >= 1
        /\ Signal \in [1..N -> SignalValues]
        /\ Position = <<>>
        /\ initial_investment = initial_capital
        /\ cash = R(0)
        /\ Holdings = Filled(N, 0)
        /\ Cash = Filled(N, initial_capital)
        /\ Total = Filled(N, initial_capital)

Init == InitScript \/ InitDirect

Next ==
  \/ MainNoData
  \/ GenerateSignals
  \/ StrategyStep
  \/ Metrics
  \/ get_stock_data
  \/ SimulateBegin
  \/ SimulateStep
  \/ SimulateReturn
  \/ SignalLoop
  \/ PortfolioStep
  \/ ReturnsAndReport

Spec == Init /\ [][Next]_vars

(* ------------------------------------------------------------------ *)
(* Claims                                                              *)
(* ------------------------------------------------------------------ *)
InStrategyLoop == prog \in {"letsSee", "letsSee_loop"} /\ pc = "loop" /\ i < N
InSimulateLoop == prog \in {"testr", "simulate_trading"} /\ pc = "loop" /\ i < N

\* C1: in the letsSee.py strategy, cash and share holdings change only at bars
\* whose signal differs from the previous bar's signal; a bar whose signal equals
\* the previous one (a persistent Buy) leaves cash and stock_holding unchanged.
\* Stated for the runs of the script itself, on the signals it derives.
C1_TradesOnlyOnSignalChange ==
  [][(prog = "letsSee" /\ InStrategyLoop /\ i >= 1 /\ Signal[i + 1] = Signal[i])
       => (cash' = cash /\ stock_holding' = stock_holding)]_vars

\* C2: in simulate_trading, a bar with Position in {-1, 0, 1}, a Buy (Position = 2)
\* while shares are held and a Sell (Position = -2) while no shares are held all
\* leave cash and stock unchanged.
C2_SatisfiedRequestsAreNoOps ==
  [][(/\ InSimulateLoop
      /\ \/ Position[i + 1] \in {R(-1), R(0), R(1)}
         \/ Position[i + 1] = R(2) /\ Gt(stock, R(0))
         \/ Position[i + 1] = R(-2) /\ stock = R(0))
       => (cash' = cash /\ stock' = stock)]_vars

\* the trade bar before row k of the Position column (0 if there is none)
LastTradeBefore(k) ==
  LET earlier == {j \in 1..(k - 1) : Position[j] \in {R(2), R(-2)}}
  IN  IF earlier = {} THEN 0 ELSE CHOOSE j \in earlier : \A h \in earlier : h <= j

C3_Alternate ==
  \A k \in 1..N :
    /\ Position[k] = R(2) =>
         LastTradeBefore(k) = 0 \/ Position[LastTradeBefore(k)] = R(-2)
    /\ Position[k] = R(-2) =>
         LastTradeBefore(k) # 0 /\ Position[LastTradeBefore(k)] = R(2)

C3_State ==
  prog = "testr" =>
    /\ pc = "simulate_trading" => C3_Alternate
    /\ pc \in {"loop", "done"} =>
         \/ cash = R(0) /\ Gt(stock, R(0))
         \/ stock = R(0) /\ Gt(cash, R(0))

C3_Step ==
  (prog = "testr" /\ InSimulateLoop) =>
    /\ Position[i + 1] = R(2) =>
         /\ stock = R(0) /\ Gt(cash, R(0))
         /\ cash' = R(0) /\ Mul(stock', R(Close[i + 1])) = cash
    /\ Position[i + 1] = R(-2) =>
         /\ cash = R(0) /\ Gt(stock, R(0))
         /\ stock' = R(0) /\ cash' = Mul(stock, R(Close[i + 1]))

\* C3: on the Position column get_stock_data builds, the trades of simulate_trading
\* alternate and begin with a Buy: a Buy executes only with stock = 0 and cash > 0
\* and sets stock = cash / price, cash = 0; a Sell executes only with stock > 0 and
\* cash = 0 and sets cash = stock * price, stock = 0; after every bar exactly one of
\* cash and stock is nonzero.
C3_TradesAlternate == [](C3_State) /\ [][C3_Step]_vars

\* a run of testr.py that has bought and then sold
C3_Witness ==
  /\ prog = "testr" /\ pc = "done"
  /\ \E k \in 1..N : Position[k] = R(-2)
  /\ stock = R(0) /\ cash # R(initial_investment)

C4_OnePerBar ==
  (prog \in {"letsSee", "letsSee_loop", "testr"} /\ pc \in {"loop", "done"})
    => Len(portfolio_values) = i

C4_Step ==
  /\ InStrategyLoop =>
       LET price == R(Close[i + 1])
       IN  /\ portfolio_values' =
                Append(portfolio_values, Add(cash', Mul(stock_holding', price)))
           /\ Add(cash', Mul(stock_holding', price)) = Add(cash, Mul(stock_holding, price))
  /\ (prog = "testr" /\ InSimulateLoop) =>
       LET price == R(Close[i + 1])
       IN  /\ portfolio_values' = Append(portfolio_values, Add(cash', Mul(stock', price)))
           /\ Add(cash', Mul(stock', price)) = Add(cash, Mul(stock, price))

\* C4: in the letsSee.py loop (any signal column) and in the testr.py pipeline one
\* portfolio value is recorded per bar; it is the post-trade cash + shares * price of
\* that bar and equals the pre-trade cash + shares * price of that bar: a trade
\* neither creates nor destroys value.
C4_ValueRecordedAndConserved == [](C4_OnePerBar) /\ [][C4_Step]_vars

\* a run of the strategy loop that bought, then sold at another price
C4_Witness ==
  /\ prog = "letsSee_loop" /\ pc = "done"
  /\ Len(portfolio_values) = N
  /\ \E k \in 2..N : Signal[k] = -1 /\ Signal[k - 1] = 1 /\ Close[k] # Close[k - 1]

\* 50 * (sum of the last 20 closes) against 20 * (sum of the last 50): MA_20 against MA_50
FastSum(k) == SumRange(Close, k - FastWindow + 1, k)
SlowSum(k) == SumRange(Close, k - SlowWindow + 1, k)

\* C5: the letsSee.py signal is 1 where MA_20 > MA_50, -1 where MA_20 <= MA_50
\* (a tie is a Sell) and 0 exactly where a moving average is undefined; the column
\* is as long as the price series and holds only 1, 0 and -1.
C5_BaselineSignal ==
  (prog = "letsSee" /\ pc = "loop" /\ i \in {0, N}) =>
    /\ Len(Signal) = N
    /\ \A k \in 1..N :
         /\ Signal[k] \in {1, 0, -1}
         /\ Signal[k] =
              IF k < FastWindow \/ k < SlowWindow THEN 0
              ELSE IF SlowWindow * FastSum(k) > FastWindow * SlowSum(k) THEN 1
              ELSE -1

\* a run with a warm-up, a Buy bar and a Sell bar on which the averages are equal
C5_Witness ==
  /\ prog = "letsSee" /\ pc = "loop"
  /\ Signal[1] = 0
  /\ \E k \in 1..N : Signal[k] = 1
  /\ \E k \in SlowWindow..N :
       Signal[k] = -1 /\ SlowWindow * FastSum(k) = FastWindow * SlowSum(k)

\* C6: the testr.py Signal is Buy or Sell only where both SMA20 and SMA50 are
\* defined; on every bar of the warm-up it is Hold (0).
C6_HoldDuringWarmUp ==
  (prog = "testr" /\ pc # "main") =>
    \A k \in 1..N : (k < FastWindow \/ k < SlowWindow) => Signal[k] = 0

\* EMA_20 > SMA_10 (resp. <) on each of the bars k - back .. k
OrderedSince(ema, sma, k, back) ==
  /\ k - back >= 1
  /\ \A j \in 0..back : Gt(ema[k - j], sma[k - j])
ReverseOrderedSince(ema, sma, k, back) ==
  /\ k - back >= 1
  /\ \A j \in 0..back : Lt(ema[k - j], sma[k - j])

\* a Hold bar the simulation loop has passed carries cash and holdings forward
C7_HoldCarriesForward ==
  (prog \in {"stockPractice", "stockPractice_loop"} /\ pc \in {"loop", "done"}) =>
    \A k \in 2..N :
      (k <= i /\ Signal[k] = 0) => (Cash[k] = Cash[k - 1] /\ Holdings[k] = Holdings[k - 1])

C7_SignalNeeds(back) ==
  (prog = "stockPractice" /\ pc \in {"loop", "done"}) =>
    LET ema == EMA_20(Close)
        sma == SMA_10(Close)
    IN  /\ Len(Signal) = N
        /\ \A k \in 1..N :
             /\ Signal[k] \in {1, 0, -1}
             /\ k - 1 < lookback_period => Signal[k] = 0
             /\ Signal[k] = 1 => OrderedSince(ema, sma, k, back)
             /\ Signal[k] = -1 => ReverseOrderedSince(ema, sma, k, back)

\* C7 as stated: with lookback_period k = 2, Signal[i] is Buy (resp. Sell) only if
\* EMA_20 > SMA_10 (resp. <) held at bar i and at each of the k prior bars
\* i-1 .. i-k; every other bar, every bar i < k included, is Hold, and the
\* simulation loop carries cash and holdings forward on it.
C7_AsStated == C7_SignalNeeds(lookback_period) /\ C7_HoldCarriesForward

\* C7 amended: the ordering held at bar i and at the one prior bar i-1, that is on
\* lookback_period consecutive bars ending at i.
C7_TwoConsecutiveBars == C7_SignalNeeds(lookback_period - 1) /\ C7_HoldCarriesForward

\* a Buy signal two bars after the averages first parted, and a Hold bar simulated
C7_Witness ==
  /\ prog = "stockPractice" /\ pc = "done"
  /\ \E k \in 3..N :
       /\ Signal[k] = 1
       /\ ~Gt(EMA_20(Close)[k - 2], SMA_10(Close)[k - 2])
  /\ \E k \in 2..N : Signal[k] = 0 /\ Cash[k] = Cash[k - 1]

\* the bars that start with a signal in force, and those of them that gained
ActiveBars == {k \in 2..N : Signal[k - 1] # 0}
WinningBars == {k \in ActiveBars : Signal[k - 1] * (Close[k] - Close[k - 1]) > 0}

\* C8: Strategy_Return[i] = Signal[i-1] * (price[i] / price[i-1] - 1), with the
\* previous bar's signal; winRatio = 100 * (bars with a nonzero prior signal and a
\* positive strategy return) / (bars with a nonzero prior signal), and exactly 0
\* when no bar has a nonzero prior signal.
C8_ReturnsUsePriorSignal ==
  (prog \in {"letsSee", "letsSee_loop"} /\ pc = "done" /\ outcome = "ok") =>
    /\ Len(Strategy_Return) = N
    /\ IsNaN(Strategy_Return[1])
    /\ \A k \in 2..N :
         /\ Strategy_Return[k][2] > 0
         /\ Strategy_Return[k][1] * Close[k - 1] =
              Strategy_Return[k][2] * Signal[k - 1] * (Close[k] - Close[k - 1])
    /\ LET w == summary[1].win_ratio
       IN  /\ w[2] > 0
           /\ ActiveBars = {} => w = R(0)
           /\ w[1] * Cardinality(ActiveBars) = 100 * Cardinality(WinningBars) * w[2]

\* a run of the script in which a bar that started under a Buy signal gained
C8_Witness ==
  /\ prog = "letsSee" /\ pc = "done"
  /\ WinningBars # {}
  /\ summary[1].win_ratio = R(100)

StrictlyIncreasing(s) == \A k \in 2..Len(s) : s[k] > s[k - 1]

\* C9: on a strictly increasing price series, in testr.py the first Buy leaves
\* cash = 0 and no Sell executes afterwards; in letsSee.py no Sell executes and
\* winRatio is 100 if a bar has a nonzero prior signal, else 0, with no exception.
C9_RisingSeries ==
  StrictlyIncreasing(Close) =>
    /\ prog = "testr" =>
         /\ InSimulateLoop => ~SellSignal(Position[i + 1])
         /\ (pc \in {"loop", "done"} /\ \E k \in 1..i : Position[k] = R(2)) =>
              (cash = R(0) /\ Gt(stock, R(0)))
    /\ prog = "letsSee" =>
         /\ InStrategyLoop => ~(Signal[i + 1] = -1 /\ Gt(stock_holding, R(0)))
         /\ pc = "done" =>
              /\ outcome \in {"ok", "no_data"}
              /\ outcome = "ok" =>
                   summary[1].win_ratio = IF ActiveBars # {} THEN R(100) ELSE R(0)

\* a rising series long enough for a Buy: letsSee.py still holds shares, at 100
C9_Witness ==
  /\ prog = "letsSee" /\ pc = "done"
  /\ StrictlyIncreasing(Close) /\ N > SlowWindow
  /\ Gt(stock_holding, R(0))
  /\ summary[1].win_ratio = R(100)

\* C10: a strategy run of letsSee.py on fewer than 2 prices ends in a failure and
\* produces no portfolio trajectory and no performance summary; on exactly 2
\* prices it succeeds with exactly one defined Daily_Return entry.
C10_ShortSeries ==
  (prog = "letsSee" /\ pc = "done") =>
    /\ N < 2 => (outcome # "ok" /\ portfolio_values = <<>> /\ summary = <<>>)
    /\ N = 2 =>
         /\ outcome = "ok"
         /\ Cardinality({k \in 1..Len(Daily_Return) : ~IsNaN(Daily_Return[k])}) = 1

NonNegative(x) == ~IsNaN(x) /\ x[1] >= 0

\* C11: in the three simulators (the letsSee.py loop and the whole-share loop of
\* stockPractice.py on any signal column, simulate_trading on the Position column
\* of get_stock_data) cash and holdings are never negative after a bar: no Buy
\* spends more than the cash at hand and no Sell leaves negative holdings.
C11_NeverNegative ==
  /\ (prog \in {"letsSee", "letsSee_loop"} /\ pc \in {"loop", "done"}) =>
       NonNegative(cash) /\ NonNegative(stock_holding)
  /\ (prog = "testr" /\ pc \in {"loop", "done"}) =>
       NonNegative(cash) /\ NonNegative(stock)
  /\ (prog \in {"stockPractice", "stockPractice_loop"} /\ pc \in {"loop", "done"}) =>
       \A k \in 1..N : Cash[k] >= 0 /\ Holdings[k] >= 0

\* a whole-share Buy at a price that leaves a remainder of cash, and a later Sell
C11_Witness ==
  /\ prog = "stockPractice_loop" /\ pc = "done"
  /\ \E k \in 2..(N - 1) :
       /\ Signal[k] = 1 /\ Cash[k] > 0 /\ Cash[k] < Close[k] /\ Holdings[k] > 0
       /\ Signal[k + 1] = -1 /\ Holdings[k + 1] = 0

\* C12: the Holdings column of stockPractice.py keeps the purchase value of the
\* position and is never re-valued: on every bar Total = Cash + Holdings equals
\* initial_capital, whatever the prices and signals, and every defined entry of
\* Returns is 0.
C12_TotalIsInitialCapital ==
  (prog \in {"stockPractice", "stockPractice_loop"} /\ pc \in {"loop", "done"}) =>
    /\ \A k \in 1..N :
         /\ Total[k] = Cash[k] + Holdings[k]
         /\ Total[k] = initial_capital
    /\ \A k \in 2..N :
         (k <= i /\ Signal[k] # -1) =>
           Holdings[k] - Holdings[k - 1] = Cash[k - 1] - Cash[k]
    /\ (pc = "done" /\ outcome = "ok") =>
         /\ Len(Returns) = N
         /\ \A k \in 1..N : IsNaN(Returns[k]) \/ Returns[k] = R(0)
         /\ \A k \in 2..N : ~IsNaN(Returns[k])

\* shares bought, then held over a bar with another price: the total has not moved
C12_Witness ==
  /\ prog = "stockPractice_loop" /\ pc = "done"
  /\ \E k \in 2..(N - 1) :
       /\ Signal[k] = 1 /\ Holdings[k] > 0
       /\ Signal[k + 1] = 0 /\ Close[k + 1] # Close[k]
       /\ Holdings[k + 1] = Holdings[k]
       /\ Total[k + 1] = initial_capital /\ Returns[k + 1] = R(0)

====
